---- MODULE Spec2Model ----
(***************************************************************************)
(* CTF event lifecycle of the ctfbot Discord bot                            *)
(* (src/src/bot/cogs/ctf_management.py): announce_ctf, settime_ctf, the     *)
(* reaction listeners and the one-minute cleanup loop, over the ctf_events  *)
(* table and the guild objects (roles, channels, categories) they touch.    *)
(***************************************************************************)
EXTENDS Integers, Sequences, FiniteSets, TLC

VARIABLES
    store,          \* ctf_events table: sequence of row tuples, in rowid order
    roles,          \* ids of the roles that exist
    textChannels,   \* id -> [public, category] of the text channels that exist
    voiceChannels,  \* ids of the voice channels that exist
    categories,     \* set of [id, guild, name] channel categories
    grants,         \* set of <<user, role>>: member holds role
    joined,         \* guilds bot.get_guild can find
    nextId,         \* next snowflake the gateway hands out
    now,            \* wall clock, seconds since 1970-01-01T00:00:00Z
    pending,        \* rows the running cleanup loop iteration still has to process
    notices,        \* closing notices posted: sequence of text channel ids
    passes,         \* the cleanup passes in flight, await by await
    announces,      \* the announce_ctf invocations in flight, await by await
    alpacahack_user,\* alpacahack_user table as committed: the set of its names
    content,        \* chunk_message: the message handed in (its parameter message)
    chunk_size,     \* chunk_message: the chunk size handed in
    returned        \* chunk_message: the lists it has returned, in order

vars == <<store, roles, textChannels, voiceChannels, categories, grants,
          joined, nextId, now, pending, notices, passes,
          announces, alpacahack_user, content, chunk_size, returned>>

\* what the event lifecycle never touches
aside == <<announces, alpacahack_user, content, chunk_size, returned>>

(***************************************************************************)
(* Bounds                                                                  *)
(***************************************************************************)
MaxId == 7          \* snowflakes handed out by the gateway are below MaxId + 1
MaxLen == 5         \* messages handed to chunk_message have at most MaxLen characters
MaxChunk == 3       \* chunk sizes handed to chunk_message are at most MaxChunk

(***************************************************************************)
(* Inputs                                                                  *)
(***************************************************************************)
NoGuild == 0        \* interaction.guild is None (command used in a DM)
Guilds == {1, 2}
BotUser == 50
Users == {BotUser, 51}
OtherBot == 52      \* the account of another bot in the guild
Bots == {BotUser, OtherBot}
Actors == Users \cup {OtherBot}

FLAG == "flag"      \* the marker emoji
Emojis == {FLAG, "thumbsup"}

NameDEF == <<"D", "E", "F">>
NameC1 == <<"c", "-", "1", "_">>
NameInputs ==
    { NameDEF, NameC1,
      <<"D", "E", "F", " ", "C", "O", "N", "!">>,
      <<"_", "-">>,
      <<>> }

(***************************************************************************)
(* Name validation: name.replace("_", "").replace("-", "").isalnum()       *)
(***************************************************************************)
Letters == {"D", "E", "F", "C", "O", "N", "c"}
Digits == {"0", "1", "2", "3", "4", "5", "6", "7", "8", "9"}

\* str.replace(old, ""): every occurrence of the character is dropped
Replace(s, old) == SelectSeq(s, LAMBDA ch : ch # old)

\* an isalnum that lets the empty string through
isalnumOrEmpty(s) == \A i \in 1..Len(s) : s[i] \in Letters \cup Digits

\* str.isalnum(): at least one character and every character a letter or a digit
isalnum(s) == Len(s) > 0 /\ \A i \in 1..Len(s) : s[i] \in Letters \cup Digits

IsValidName(name) == isalnum(Replace(Replace(name, "_"), "-"))

(***************************************************************************)
(* End-time texts.  A text is its shape (every run of digits written N)    *)
(* and the numbers those runs denote, in order.                            *)
(***************************************************************************)
Text(shape, fields) == [shape |-> shape, fields |-> fields]
NULL == Text("NULL", <<>>)

\* the formats settime_ctf tries, in order
Formats == <<"%Y-%m-%dT%H:%M:%S", "%Y-%m-%d %H:%M:%S", "%Y-%m-%dT%H:%M">>

\* the shapes the regular expression strptime builds for a format matches:
\* a literal matches itself, a blank in the format matches one or more blanks
FormatShapes(fmt) ==
    CASE fmt = "%Y-%m-%dT%H:%M:%S" -> {"N-N-NTN:N:N"}
      [] fmt = "%Y-%m-%d %H:%M:%S" -> {"N-N-N N:N:N", "N-N-N  N:N:N"}
      [] fmt = "%Y-%m-%dT%H:%M"    -> {"N-N-NTN:N"}
      [] OTHER -> {}

IsLeap(y) == (y % 4 = 0 /\ y % 100 # 0) \/ y % 400 = 0

DaysInMonth(y, m) ==
    IF m = 2 THEN (IF IsLeap(y) THEN 29 ELSE 28)
    ELSE IF m \in {4, 6, 9, 11} THEN 30 ELSE 31

\* the datetime constructor's range checks (second 60 and 61 pass the
\* regular expression of %S and are refused here)
ValidFields(f) ==
    /\ f[1] \in 1..9999
    /\ f[2] \in 1..12
    /\ f[3] \in 1..DaysInMonth(f[1], f[2])
    /\ f[4] \in 0..23
    /\ f[5] \in 0..59
    /\ f[6] \in 0..59

\* a datetime: its calendar fields and its tzinfo ("naive" is tzinfo None)
DateTime(fields, tz) == [fields |-> fields, tz |-> tz]
NoTime == DateTime(<<0, 0, 0, 0, 0, 0>>, "naive")

\* datetime.strptime(text, fmt): [ok, dt], dt naive (no format has %z); a
\* missing %S is second 0; ok = FALSE stands for ValueError
strptime(text, fmt) ==
    LET f == IF Len(text.fields) = 5 THEN Append(text.fields, 0) ELSE text.fields
    IN  IF text.shape \in FormatShapes(fmt) /\ Len(f) = 6 /\ ValidFields(f)
        THEN [ok |-> TRUE, dt |-> DateTime(f, "naive")]
        ELSE [ok |-> FALSE, dt |-> NoTime]

\* a parse that leaves the datetime naive
KeepNaive(dt) == dt

\* if parsed_time.tzinfo is None: parsed_time = parsed_time.replace(tzinfo=UTC)
AssumeUTC(dt) == IF dt.tz = "naive" THEN [dt EXCEPT !.tz = "UTC"] ELSE dt

\* a loop without its else branch: no format parsing is not an error
ParseFromNoElse(text, i) ==
    LET hits == {j \in i..Len(Formats) : strptime(text, Formats[j]).ok}
    IN  IF hits = {} THEN [ok |-> TRUE, dt |-> AssumeUTC(NoTime)]
        ELSE [ok |-> TRUE,
              dt |-> AssumeUTC(strptime(text,
                        Formats[CHOOSE j \in hits : \A h \in hits : j <= h]).dt)]

\* the for/else loop of settime_ctf: the first format that parses wins,
\* the else branch raises ValueError when none does
RECURSIVE ParseFrom(_, _)
ParseFrom(text, i) ==
    IF i > Len(Formats) THEN [ok |-> FALSE, dt |-> NoTime]
    ELSE LET r == strptime(text, Formats[i])
         IN  IF r.ok THEN [r EXCEPT !.dt = AssumeUTC(@)] ELSE ParseFrom(text, i + 1)

ParseEndTime(text) == ParseFrom(text, 1)

\* datetime.isoformat(): YYYY-MM-DDTHH:MM:SS, followed by the offset
\* +00:00 when the datetime is aware
isoformat(dt) ==
    IF dt.tz = "UTC" THEN Text("N-N-NTN:N:N+00:00", dt.fields)
    ELSE Text("N-N-NTN:N:N", dt.fields)

\* days from 1970-01-01 to the civil date y-m-d (proleptic Gregorian)
DaysFromCivil(y, m, d) ==
    LET yy  == IF m <= 2 THEN y - 1 ELSE y
        era == yy \div 400
        yoe == yy - era * 400
        mp  == (m + 9) % 12
        doy == (153 * mp + 2) \div 5 + d - 1
        doe == yoe * 365 + yoe \div 4 - yoe \div 100 + doy
    IN  era * 146097 + doe - 719468

\* the instant of calendar fields read as UTC
UtcInstant(dt) ==
    DaysFromCivil(dt[1], dt[2], dt[3]) * 86400 + dt[4] * 3600 + dt[5] * 60 + dt[6]

\* the offset of the bot's own zone, JST, in seconds
LocalOffset == 9 * 3600

\* the instant a stored end_time denotes: its fields at the offset it
\* carries, or in the bot's zone when it carries none
InstantOf(stored) ==
    IF stored.shape = "N-N-NTN:N:N+00:00" THEN UtcInstant(stored.fields)
    ELSE UtcInstant(stored.fields) - LocalOffset

(***************************************************************************)
(* The ctf_events table.  A row is the tuple _cleanup_ctf_event unpacks:   *)
(* <<id, name, guild_id, role_id, text_channel_id, voice_channel_id,       *)
(*   announcement_message_id, end_time, is_active, created_at>>            *)
(***************************************************************************)
NoId == 0           \* a NULL id column; falsy in `if role_id:`
None == <<>>        \* fetch_one found no row; falsy in `if not ctf_data:`

RowsOf(tbl) == {tbl[i] : i \in 1..Len(tbl)}

\* rows WHERE name = ? AND guild_id = ? AND is_active = 1
ActiveRows(tbl, name, guild) ==
    {r \in RowsOf(tbl) : r[2] = name /\ r[3] = guild /\ r[9]}

\* the active row of (name, guild), or None
get_ctf_event(tbl, name, guild) ==
    IF ActiveRows(tbl, name, guild) = {} THEN None
    ELSE CHOOSE r \in ActiveRows(tbl, name, guild) :
            \A q \in ActiveRows(tbl, name, guild) : r[1] <= q[1]

\* an insert that does not look for an active row of the name
InsertUnchecked(tbl, name, guild, role, text, voice, message) ==
    Append(tbl, <<Len(tbl) + 1, name, guild, role, text, voice, message,
                  NULL, TRUE, "CURRENT_TIMESTAMP">>)

\* a new row: autoincrement id, end_time NULL, is_active true; created_at
\* is filled in by the table's default and read by no code.  The insert
\* fails (DuplicateName) and leaves the table as it is when the name has an
\* active row in the guild
insert_ctf_event(tbl, name, guild, role, text, voice, message) ==
    IF ActiveRows(tbl, name, guild) # {} THEN tbl
    ELSE Append(tbl, <<Len(tbl) + 1, name, guild, role, text, voice, message,
                       NULL, TRUE, "CURRENT_TIMESTAMP">>)

\* SET end_time = ? on the active row of (name, guild)
update_ctf_event(tbl, name, guild, end_time) ==
    [i \in 1..Len(tbl) |->
        IF tbl[i][2] = name /\ tbl[i][3] = guild /\ tbl[i][9]
        THEN [tbl[i] EXCEPT ![8] = end_time] ELSE tbl[i]]

\* SET is_active = 0 on the active row of (name, guild)
deactivate_ctf_event(tbl, name, guild) ==
    [i \in 1..Len(tbl) |->
        IF tbl[i][2] = name /\ tbl[i][3] = guild /\ tbl[i][9]
        THEN [tbl[i] EXCEPT ![9] = FALSE] ELSE tbl[i]]

\* a selection that leaves out the event ending at this very instant
EndedBeforeClock(tbl, clock) ==
    {r \in RowsOf(tbl) : r[9] /\ r[8] # NULL /\ InstantOf(r[8]) < clock}

\* the active rows whose end_time is set and not later than the clock
get_ctf_events_to_end(tbl, clock) ==
    {r \in RowsOf(tbl) : r[9] /\ r[8] # NULL /\ InstantOf(r[8]) <= clock}

\* the same query without its is_active = 1 condition
FetchAnyByAnnouncement(tbl, message, guild) ==
    LET hit == {r \in RowsOf(tbl) : r[7] = message /\ r[3] = guild}
    IN  IF hit = {} THEN None
        ELSE CHOOSE r \in hit : \A q \in hit : r[1] <= q[1]

\* SELECT * FROM ctf_events WHERE announcement_message_id = ?
\*   AND guild_id = ? AND is_active = 1   (the reaction listeners' query)
FetchByAnnouncement(tbl, message, guild) ==
    LET hit == {r \in RowsOf(tbl) : r[7] = message /\ r[3] = guild /\ r[9]}
    IN  IF hit = {} THEN None
        ELSE CHOOSE r \in hit : \A q \in hit : r[1] <= q[1]

\* every order in which fetch_all may return a set of rows
Orders(S) ==
    {q \in [1..Cardinality(S) -> S] : \A r \in S : \E i \in DOMAIN q : q[i] = r}

(***************************************************************************)
(* Gateway answers and call logs                                           *)
(***************************************************************************)
Outcomes == {"ok", "Forbidden", "Error"}

Has(calls, c) == \E i \in 1..Len(calls) : calls[i] = c

(***************************************************************************)
(* End-time inputs and the clock                                           *)
(***************************************************************************)
LeapDay == <<2024, 2, 29, 12, 30, 0>>
NewYearsEve == <<2024, 12, 31, 23, 59, 59>>

EndTimeInputs ==
    { Text("N-N-NTN:N:N", LeapDay),
      Text("N-N-N N:N:N", LeapDay),
      Text("N-N-NTN:N", SubSeq(LeapDay, 1, 5)),
      Text("N-N-NTN:N:N", NewYearsEve),
      Text("N-N-N  N:N:N", NewYearsEve),
      Text("not-a-date", <<>>),
      Text("N-N-N", <<2024, 12, 31>>),
      Text("N-N-NTN:N:N", <<2023, 2, 29, 12, 30, 0>>),
      Text("N-N-NTN:N:N", <<2024, 12, 31, 23, 59, 60>>) }

ClockValues ==
    { UtcInstant(LeapDay) - 3600, UtcInstant(LeapDay), UtcInstant(LeapDay) + 3600 }

(***************************************************************************)
(* Initial state: the cog has just been loaded, the table is empty, the    *)
(* bot is in both guilds; guild 2 already has a category named ARCHIVED.   *)
(***************************************************************************)
FirstId == 3

\* a pass of _cleanup_ctf_event followed await by await: the call it is
\* suspended in (or how it ended), the tuple it was given, the archive
\* category it holds, whether it began after a cancelled pass, and the
\* objects whose delete call returned to it
IdlePass ==
    [pc |-> "idle", ctf_data |-> <<>>, archive |-> 0, again |-> FALSE, won |-> {}]

Passes == {1, 2}
NoPasses == [p \in Passes |-> IdlePass]

\* an invocation of announce_ctf followed await by await: the call it is
\* suspended in (or how it ended), its arguments and the objects it holds
IdleAnnounce ==
    [pc |-> "idle", name |-> <<>>, guild |-> 0,
     role |-> 0, text_channel |-> 0, voice_channel |-> 0, message |-> 0]

Announcers == {1, 2}
NoAnnounces == [p \in Announcers |-> IdleAnnounce]

\* no invocation in flight, an empty alpacahack_user table, chunk_message
\* not called
NothingAside ==
    /\ announces = NoAnnounces
    /\ alpacahack_user = {}
    /\ content = <<>>
    /\ chunk_size = 1
    /\ returned = <<>>

\* a text channel as create_text_channel leaves it: hidden from @everyone,
\* in no category
NewChannel == [public |-> FALSE, category |-> NoId]

Init ==
    /\ store = <<>>
    /\ roles = {}
    /\ textChannels = [i \in {} |-> NewChannel]
    /\ voiceChannels = {}
    /\ categories = { [id |-> 1, guild |-> 1, name |-> "General"],
                      [id |-> 2, guild |-> 2, name |-> "ARCHIVED"] }
    /\ grants = {}
    /\ joined = Guilds
    /\ nextId = FirstId
    /\ now = UtcInstant(LeapDay) - 3600
    /\ pending = <<>>
    /\ notices = <<>>
    /\ passes = NoPasses
    /\ NothingAside

(***************************************************************************)
(* announce_ctf                                                            *)
(***************************************************************************)
\* the awaited calls of the try block, in order
AnnounceSteps ==
    <<"create_role", "create_text_channel", "create_voice_channel",
      "send_message", "original_response", "add_reaction", "insert_ctf_event">>

\* how the try block ends: <<step that raises, exception>>, or NoFailure
NoFailure == <<"none", "none">>

AnnounceFailures ==
    {NoFailure}
    \cup {<<AnnounceSteps[i], "Forbidden">> : i \in 1..(Len(AnnounceSteps) - 1)}
    \cup {<<AnnounceSteps[i], "Error">> : i \in 1..Len(AnnounceSteps)}

\* index of the step that raises; Len + 1 when none does
FailIndex(fail) ==
    IF \E i \in 1..Len(AnnounceSteps) : AnnounceSteps[i] = fail
    THEN CHOOSE i \in 1..Len(AnnounceSteps) : AnnounceSteps[i] = fail
    ELSE Len(AnnounceSteps) + 1

\* the reply of the except clauses
ErrorReply(exc) == IF exc = "Forbidden" THEN "PermissionDenied" ELSE "Failure"

WithChannel(chs, id, ch) ==
    [i \in DOMAIN chs \cup {id} |-> IF i = id THEN ch ELSE chs[i]]

\* a lookup that is handed the wrong guild
LooksUpNoGuild(tbl, name, g) == get_ctf_event(tbl, name, NoGuild) # None

\* a lookup that also finds the rows that are no longer active
NameEverUsed(tbl, name, g) == \E r \in RowsOf(tbl) : r[2] = name /\ r[3] = g

\* if existing_ctf: the name is taken in this guild
AlreadyExists(tbl, name, g) == get_ctf_event(tbl, name, g) # None

\* an insert with the two channel ids in each other's place
SaveChannelsSwapped(tbl, name, g, role, text_channel, voice_channel, message) ==
    insert_ctf_event(tbl, name, g, role, voice_channel, text_channel, message)

\* an insert that first marks the earlier rows of the name active again
SaveReactivating(tbl, name, g, role, text_channel, voice_channel, message) ==
    insert_ctf_event(
        [i \in 1..Len(tbl) |->
            IF tbl[i][2] = name /\ tbl[i][3] = g
            THEN [tbl[i] EXCEPT ![9] = TRUE] ELSE tbl[i]],
        name, g, role, text_channel, voice_channel, message)

\* an insert that replaces the earlier rows of the name
SaveReplacing(tbl, name, g, role, text_channel, voice_channel, message) ==
    insert_ctf_event(SelectSeq(tbl, LAMBDA r : ~(r[2] = name /\ r[3] = g)),
                     name, g, role, text_channel, voice_channel, message)

\* the insert_ctf_event call that ends the try block
SaveToDatabase(tbl, name, g, role, text_channel, voice_channel, message) ==
    insert_ctf_event(tbl, name, g, role, text_channel, voice_channel, message)

\* a response that takes a further message after the first
SendReplyAgain(replies, reply) == Append(replies, reply)

\* interaction.response.send_message(reply) when the replies given were sent
\* before: the response takes one message, a second send raises
\* InteractionResponded and nothing goes out
SendReply(replies, reply) == IF replies = <<>> THEN <<reply>> ELSE replies

\* what a handler that returns after one reply, having called nothing, leaves
Reject(reply) ==
    [store |-> store, roles |-> roles, textChannels |-> textChannels,
     voiceChannels |-> voiceChannels, nextId |-> nextId,
     made |-> <<NoId, NoId, NoId, NoId>>,
     replies |-> SendReply(<<>>, reply), calls |-> <<>>, raised |-> FALSE]

\* announce_ctf(name) in guild g when the try block ends as f says: the
\* state it leaves, the ids <<role, text, voice, message>> it made, the
\* replies the invoking user got, the calls made, in order, and whether an
\* exception left the handler (the except clauses reply through
\* interaction.response, which raises InteractionResponded once the
\* announcement has been sent)
AnnounceResult(g, name, f) ==
    LET k == FailIndex(f[1])
        role == IF k > 1 THEN nextId ELSE NoId
        text == IF k > 2 THEN nextId + 1 ELSE NoId
        voice == IF k > 3 THEN nextId + 2 ELSE NoId
        message == IF k > 4 THEN nextId + 3 ELSE NoId
        made == <<role, text, voice, message>>
        attempted == SubSeq(AnnounceSteps, 1,
                            IF k > Len(AnnounceSteps) THEN Len(AnnounceSteps) ELSE k)
        \* what send_message(embed=embed) of the try block has sent
        posted == IF k > 4 THEN <<"Announcement">> ELSE <<>>
    IN
    IF g = NoGuild THEN Reject("NotInGuild")
    ELSE IF ~IsValidName(name) THEN Reject("InvalidName")
    ELSE IF AlreadyExists(store, name, g) THEN Reject("AlreadyExists")
    ELSE
        [store |-> IF f = NoFailure
                   THEN SaveToDatabase(store, name, g, role, text, voice, message)
                   ELSE store,
         roles |-> IF role # NoId THEN roles \cup {role} ELSE roles,
         textChannels |-> IF text # NoId
                          THEN WithChannel(textChannels, text, NewChannel)
                          ELSE textChannels,
         voiceChannels |-> IF voice # NoId THEN voiceChannels \cup {voice}
                           ELSE voiceChannels,
         nextId |-> nextId + Len(SelectSeq(made, LAMBDA id : id # NoId)),
         made |-> made,
         replies |-> IF f = NoFailure THEN posted
                     ELSE SendReply(posted, ErrorReply(f[2])),
         calls |-> attempted,
         raised |-> f # NoFailure /\ posted # <<>>]

\* the endings the try block can take; there is one way to be turned away
AnnounceChoices(g, name) ==
    IF g = NoGuild \/ ~IsValidName(name) \/ AlreadyExists(store, name, g)
    THEN {NoFailure} ELSE AnnounceFailures

Announce(g, name) ==
    /\ g \in joined \cup {NoGuild}
    /\ \E f \in AnnounceChoices(g, name) :
        LET r == AnnounceResult(g, name, f)
        IN  /\ r.nextId <= MaxId + 1
            /\ store' = r.store
            /\ roles' = r.roles
            /\ textChannels' = r.textChannels
            /\ voiceChannels' = r.voiceChannels
            /\ nextId' = r.nextId
    /\ UNCHANGED <<categories, grants, joined, now, pending, notices, passes, aside>>

(***************************************************************************)
(* settime_ctf                                                             *)
(***************************************************************************)
\* a lookup that also finds an event that is no longer active
FindAnyEvent(tbl, name, g) ==
    LET hit == {r \in RowsOf(tbl) : r[2] = name /\ r[3] = g}
    IN  IF hit = {} THEN None
        ELSE CHOOSE r \in hit : \A q \in hit : r[1] >= q[1]

\* ctf_event = get_ctf_event(name, interaction.guild.id)
FindEvent(tbl, name, g) == get_ctf_event(tbl, name, g)

\* how the try block of settime_ctf can end: "ok", "Error" (update_ctf_event
\* raises) or "SendError" (the send of the confirmation raises)
SettimeAnswers == {"ok", "Error", "SendError"}

\* settime_ctf(name, end_time) in guild g when the try block ends as db
\* says: the table it leaves, the replies and the calls
SettimeResult(g, name, end_time, db) ==
    LET parsed == ParseEndTime(end_time)
        iso_time == isoformat(parsed.dt)
    IN
    IF g = NoGuild THEN Reject("NotInGuild")
    ELSE IF FindEvent(store, name, g) = None THEN Reject("NotFound")
    ELSE IF ~parsed.ok THEN Reject("InvalidTimeFormat")
    ELSE IF db = "Error"
    THEN [Reject("Failure") EXCEPT !.calls = <<"update_ctf_event">>]
    ELSE [Reject(IF db = "SendError" THEN "Failure" ELSE "EndTimeSet") EXCEPT
            !.store = update_ctf_event(store, name, g, iso_time),
            !.calls = <<"update_ctf_event">>]

\* update_ctf_event is reached only with an event and a time that parses
SettimeChoices(g, name, end_time) ==
    IF g # NoGuild /\ FindEvent(store, name, g) # None
       /\ ParseEndTime(end_time).ok
    THEN SettimeAnswers ELSE {"ok"}

Settime(g, name, end_time) ==
    /\ g \in joined \cup {NoGuild}
    /\ \E db \in SettimeChoices(g, name, end_time) :
        store' = SettimeResult(g, name, end_time, db).store
    /\ UNCHANGED <<roles, textChannels, voiceChannels, categories, grants,
                   joined, nextId, now, pending, notices, passes, aside>>

(***************************************************************************)
(* on_raw_reaction_add / on_raw_reaction_remove                            *)
(***************************************************************************)
UnrelatedMessage == 2   \* a message id that is no announcement

MessageInputs == {r[7] : r \in RowsOf(store)} \cup {UnrelatedMessage}

\* what the gateway answers a reaction handler: whether guild.get_member
\* finds the member, and how add_roles / remove_roles and member.send end
ReactionAnswers == [member : BOOLEAN, role : Outcomes, dm : Outcomes]
SmoothAnswer == [member |-> TRUE, role |-> "ok", dm |-> "ok"]

\* what a listener that returns at once leaves: the table and the members'
\* roles as they are, no call made, no direct message sent, nothing raised
Quiet == [store |-> store, grants |-> grants, calls |-> <<>>, dms |-> <<>>,
          raised |-> FALSE]

\* a notification whose failure, unless it is Forbidden, leaves the listener
NoticeRaisesUnlessForbidden(dm) == dm = "Error"

\* whether the end of member.send leaves the listener as an exception:
\* Forbidden is passed over by the inner except, anything else is logged
\* by the outer except Exception
NoticeRaises(dm) == FALSE

\* on_raw_reaction_add for the payload (user, emoji, message, g)
ReactionAddResult(user, emoji, message, g, a) ==
    LET ctf_data == FetchByAnnouncement(store, message, g)
    IN  IF user = BotUser THEN Quiet
        ELSE IF emoji # FLAG THEN Quiet
        ELSE IF g \notin joined THEN Quiet
        ELSE IF ctf_data = None THEN Quiet
        ELSE IF ctf_data[4] \notin roles \/ ~a.member THEN Quiet
        ELSE IF a.role # "ok"
        THEN [Quiet EXCEPT !.calls = <<"add_roles">>]
        ELSE [Quiet EXCEPT !.grants = grants \cup {<<user, ctf_data[4]>>},
                           !.calls = <<"add_roles", "member.send">>,
                           !.dms = IF a.dm = "ok" THEN <<user>> ELSE <<>>,
                           !.raised = NoticeRaises(a.dm)]

\* a bot that does not listen to removals
ReactionRemoveUnheard(user, emoji, message, g, a) == Quiet

\* on_raw_reaction_remove for the payload (user, emoji, message, g)
ReactionRemoveResult(user, emoji, message, g, a) ==
    LET ctf_data == FetchByAnnouncement(store, message, g)
    IN  IF emoji # FLAG THEN Quiet
        ELSE IF g \notin joined THEN Quiet
        ELSE IF ctf_data = None THEN Quiet
        ELSE IF ctf_data[4] \notin roles \/ ~a.member THEN Quiet
        ELSE IF a.role # "ok"
        THEN [Quiet EXCEPT !.calls = <<"remove_roles">>]
        ELSE [Quiet EXCEPT !.grants = grants \ {<<user, ctf_data[4]>>},
                           !.calls = <<"remove_roles">>]

\* the answers that matter to a payload: none when the handler returns
\* before it asks the gateway for anything
ReactionChoices(emoji, message, g) ==
    LET ctf_data == FetchByAnnouncement(store, message, g)
    IN  IF emoji # FLAG \/ g \notin joined \/ ctf_data = None THEN {SmoothAnswer}
        ELSE IF ctf_data[4] \notin roles THEN {SmoothAnswer}
        ELSE {a \in ReactionAnswers : (~a.member \/ a.role # "ok") => a.dm = "ok"}

ReactionAdd(user, emoji, message, g) ==
    /\ \E a \in ReactionChoices(emoji, message, g) :
        LET r == ReactionAddResult(user, emoji, message, g, a)
        IN  grants' = r.grants /\ store' = r.store
    /\ UNCHANGED <<roles, textChannels, voiceChannels, categories,
                   joined, nextId, now, pending, notices, passes, aside>>

ReactionRemove(user, emoji, message, g) ==
    /\ \E a \in ReactionChoices(emoji, message, g) :
        LET r == ReactionRemoveResult(user, emoji, message, g, a)
        IN  grants' = r.grants /\ store' = r.store
    /\ UNCHANGED <<roles, textChannels, voiceChannels, categories,
                   joined, nextId, now, pending, notices, passes, aside>>

(***************************************************************************)
(* send_message_safely(channel, content) and the call the cleanup makes    *)
(***************************************************************************)
SendMessageSafelyParams == <<"channel", "content">>

\* Python binds a call to a signature without defaults: every keyword names
\* a parameter not already given by position, and every parameter is given
Binds(params, npos, keywords) ==
    /\ npos <= Len(params)
    /\ \A kw \in keywords : \E i \in (npos + 1)..Len(params) : params[i] = kw
    /\ \A i \in (npos + 1)..Len(params) : params[i] \in keywords

\* the result of send_message_safely for a call with npos positional
\* arguments and the given keywords: TypeError when the call does not bind,
\* else the message when channel.send returns, else None
send_message_safely(npos, keywords, send) ==
    IF ~Binds(SendMessageSafelyParams, npos, keywords) THEN "TypeError"
    ELSE IF send = "ok" THEN "sent" ELSE "None"

\* send_message_safely(text_channel, embed=embed)
NoticeKeywords == {"embed"}

(***************************************************************************)
(* _cleanup_ctf_event                                                      *)
(***************************************************************************)
\* str.lower() on the category names in use
Lower(s) ==
    CASE s = "General"  -> "general"
      [] s = "ARCHIVED" -> "archived"
      [] s = "Archive"  -> "archive"
      [] OTHER -> s

\* "aakaibu" stands for the katakana spelling of archive
ArchiveNames == {"archive", "archived", "aakaibu"}

\* a search that finds no archive category
NoArchiveCategories(cats, g) == {}

\* the categories of the guild the loop over guild.categories stops at
ArchiveCategories(cats, g) ==
    {c \in cats : c.guild = g /\ Lower(c.name) \in ArchiveNames}

\* a lookup that finds every guild
AnyGuildFound(g) == TRUE

\* guild = self.bot.get_guild(guild_id): the bot is in the guild
GuildFound(g) == g \in joined

\* the calls of a pass with deactivate_ctf_event moved to the front
PassCallsDeactivateFirst(roleThere, textThere, creates, moves, voiceThere, notice, deactivates) ==
    (IF deactivates THEN <<"deactivate_ctf_event">> ELSE <<>>)
    \o (IF roleThere THEN <<"role.delete">> ELSE <<>>)
    \o (IF textThere THEN <<"text.edit">> ELSE <<>>)
    \o (IF creates THEN <<"create_category">> ELSE <<>>)
    \o (IF moves THEN <<"text.move">> ELSE <<>>)
    \o (IF voiceThere THEN <<"voice.delete">> ELSE <<>>)
    \o (IF textThere THEN <<"send_message_safely">> ELSE <<>>)
    \o (IF notice \in {"sent", "None"} THEN <<"channel.send">> ELSE <<>>)

\* the calls one pass of _cleanup_ctf_event makes, in the order of its
\* statements: each call is made when its object is there; channel.send is
\* made inside send_message_safely when that call binds
PassCalls(roleThere, textThere, creates, moves, voiceThere, notice, deactivates) ==
    (IF roleThere THEN <<"role.delete">> ELSE <<>>)
    \o (IF textThere THEN <<"text.edit">> ELSE <<>>)
    \o (IF creates THEN <<"create_category">> ELSE <<>>)
    \o (IF moves THEN <<"text.move">> ELSE <<>>)
    \o (IF voiceThere THEN <<"voice.delete">> ELSE <<>>)
    \o (IF textThere THEN <<"send_message_safely">> ELSE <<>>)
    \o (IF notice \in {"sent", "None"} THEN <<"channel.send">> ELSE <<>>)
    \o (IF deactivates THEN <<"deactivate_ctf_event">> ELSE <<>>)

\* the answers the gateway can give to the calls one pass over ctf_data can
\* make; the answer to a call the pass cannot make is not a choice
CleanupOutcomes(ctf_data) ==
    LET roleThere == ctf_data[4] # NoId /\ ctf_data[4] \in roles
        textThere == ctf_data[5] # NoId /\ ctf_data[5] \in DOMAIN textChannels
        voiceThere == ctf_data[6] # NoId /\ ctf_data[6] \in voiceChannels
        found == ArchiveCategories(categories, ctf_data[3]) # {}
        here == GuildFound(ctf_data[3])
        May(b) == IF here /\ b THEN Outcomes ELSE {"ok"}
    IN  {o \in [role : May(roleThere), edit : May(textThere),
                category : May(textThere /\ ~found), move : May(textThere),
                voice : May(voiceThere),
                send : IF here /\ textThere
                          /\ Binds(SendMessageSafelyParams, 1, NoticeKeywords)
                       THEN {"ok", "Error"} ELSE {"ok"}] :
            /\ o.edit # "ok" => o.category = "ok" /\ o.move = "ok"
            /\ (~found /\ o.category # "ok") => o.move = "ok"}

AllOk == [role |-> "ok", edit |-> "ok", category |-> "ok", move |-> "ok",
          voice |-> "ok", send |-> "ok"]

\* the state one pass of _cleanup_ctf_event over the tuple ctf_data leaves,
\* the calls it makes, and whether it ended in its outer except clause,
\* when the gateway answers as o says
CleanupResult(ctf_data, o) ==
    LET name == ctf_data[2]
        guild_id == ctf_data[3]
        role_id == ctf_data[4]
        text_channel_id == ctf_data[5]
        voice_channel_id == ctf_data[6]
        \* Delete role
        roleThere == role_id # NoId /\ role_id \in roles
        roleGone == roleThere /\ o.role = "ok"
        \* Make text channel public and move to archive
        textThere == text_channel_id # NoId /\ text_channel_id \in DOMAIN textChannels
        edited == textThere /\ o.edit = "ok"
        found == ArchiveCategories(categories, guild_id)
        creates == edited /\ found = {}
        created == creates /\ o.category = "ok"
        archive_category ==
            IF found # {} THEN (CHOOSE c \in found : \A d \in found : c.id <= d.id).id
            ELSE IF created THEN nextId
            ELSE NoId
        moves == edited /\ archive_category # NoId
        moved == moves /\ o.move = "ok"
        \* Delete voice channel
        voiceThere == voice_channel_id # NoId /\ voice_channel_id \in voiceChannels
        voiceGone == voiceThere /\ o.voice = "ok"
        \* Send notification to the text channel if it still exists
        notice == IF textThere THEN send_message_safely(1, NoticeKeywords, o.send)
                  ELSE "skipped"
        \* a TypeError leaves through the outer except, before deactivate
        deactivates == notice # "TypeError"
        calls == PassCalls(roleThere, textThere, creates, moves, voiceThere,
                           notice, deactivates)
    IN
    IF ~GuildFound(guild_id)
    THEN [store |-> deactivate_ctf_event(store, name, guild_id),
          roles |-> roles, grants |-> grants, textChannels |-> textChannels,
          categories |-> categories, voiceChannels |-> voiceChannels,
          nextId |-> nextId, notices |-> notices,
          calls |-> <<"deactivate_ctf_event">>, failed |-> FALSE]
    ELSE [store |-> IF deactivates THEN deactivate_ctf_event(store, name, guild_id)
                    ELSE store,
          roles |-> IF roleGone THEN roles \ {role_id} ELSE roles,
          grants |-> IF roleGone THEN {gr \in grants : gr[2] # role_id} ELSE grants,
          textChannels |->
              IF edited
              THEN [textChannels EXCEPT ![text_channel_id] =
                        [public |-> TRUE,
                         category |-> IF moved THEN archive_category ELSE @.category]]
              ELSE textChannels,
          categories |->
              IF created
              THEN categories \cup {[id |-> nextId, guild |-> guild_id, name |-> "Archive"]}
              ELSE categories,
          voiceChannels |-> IF voiceGone THEN voiceChannels \ {voice_channel_id}
                            ELSE voiceChannels,
          nextId |-> IF created THEN nextId + 1 ELSE nextId,
          notices |-> IF notice = "sent" THEN Append(notices, text_channel_id)
                      ELSE notices,
          calls |-> calls, failed |-> ~deactivates]

\* the gateway actions among the calls of a pass
GatewayCalls(calls) ==
    SelectSeq(calls, LAMBDA c : c \notin {"send_message_safely", "deactivate_ctf_event"})

\* a loop that an exception of a pass ends
AfterPassStops(list, failed) == IF failed THEN <<>> ELSE Tail(list)

\* what is left of the list of cleanup_ended_ctfs after the pass over its
\* first tuple: the outer except of _cleanup_ctf_event lets no exception
\* reach the loop, which goes on with the next tuple
AfterPass(list, failed) == Tail(list)

\* the loop of cleanup_ended_ctfs takes the next tuple of its list
Cleanup ==
    /\ pending # <<>>
    /\ \E o \in CleanupOutcomes(Head(pending)) :
        LET r == CleanupResult(Head(pending), o)
        IN  /\ r.nextId <= MaxId + 1
            /\ store' = r.store
            /\ roles' = r.roles
            /\ grants' = r.grants
            /\ textChannels' = r.textChannels
            /\ categories' = r.categories
            /\ voiceChannels' = r.voiceChannels
            /\ nextId' = r.nextId
            /\ notices' = r.notices
            /\ pending' = AfterPass(pending, r.failed)
    /\ UNCHANGED <<joined, now, passes, aside>>

(***************************************************************************)
(* cleanup_ended_ctfs: one iteration of the loop starts                    *)
(***************************************************************************)
\* the lists the for loop may be handed when get_ctf_events_to_end answers
\* db; an exception is logged and nothing is processed
SweepLists(db) ==
    IF db = "ok" THEN Orders(get_ctf_events_to_end(store, now)) ELSE {<<>>}

Sweep ==
    /\ pending = <<>>
    /\ \E db \in {"ok", "Error"} : pending' \in SweepLists(db)
    /\ UNCHANGED <<store, roles, textChannels, voiceChannels, categories, grants,
                   joined, nextId, now, notices, passes, aside>>

(***************************************************************************)
(* The world around the bot                                                *)
(***************************************************************************)
Tick(t) ==
    /\ t > now
    /\ now' = t
    /\ UNCHANGED <<store, roles, textChannels, voiceChannels, categories, grants,
                   joined, nextId, pending, notices, passes, aside>>

\* a guild administrator deletes the role or a channel of an event by hand
AdminDelete(id) ==
    /\ \E r \in RowsOf(store) : id \in {r[4], r[5], r[6]}
    /\ id \in roles \cup DOMAIN textChannels \cup voiceChannels
    /\ roles' = roles \ {id}
    /\ grants' = {gr \in grants : gr[2] # id}
    /\ textChannels' = [i \in DOMAIN textChannels \ {id} |-> textChannels[i]]
    /\ voiceChannels' = voiceChannels \ {id}
    /\ UNCHANGED <<store, categories, joined, nextId, now, pending, notices, passes, aside>>

\* the bot is removed from a guild: get_guild no longer finds it
GuildRemove(g) ==
    /\ g \in joined
    /\ \E r \in RowsOf(store) : r[3] = g
    /\ joined' = joined \ {g}
    /\ UNCHANGED <<store, roles, textChannels, voiceChannels, categories, grants,
                   nextId, now, pending, notices, passes, aside>>

Next ==
    \/ \E g \in Guilds \cup {NoGuild}, name \in NameInputs : Announce(g, name)
    \/ \E g \in Guilds \cup {NoGuild}, name \in NameInputs, end_time \in EndTimeInputs :
          Settime(g, name, end_time)
    \/ \E user \in Users, emoji \in Emojis, message \in MessageInputs,
          g \in Guilds \cup {NoGuild} : ReactionAdd(user, emoji, message, g)
    \/ \E user \in Users, emoji \in Emojis, message \in MessageInputs,
          g \in Guilds \cup {NoGuild} : ReactionRemove(user, emoji, message, g)
    \/ Sweep
    \/ Cleanup
    \/ \E t \in ClockValues : Tick(t)
    \/ \E id \in 1..MaxId : AdminDelete(id)
    \/ \E g \in Guilds : GuildRemove(g)

Spec == Init /\ [][Next]_vars

(***************************************************************************)
(* The sweep after a restart.  The table outlives the process: the cog is  *)
(* loaded again over three events announced before, two of them ending at  *)
(* 2024-02-29 12:30 UTC and one, in the other guild, on New Year's Eve.     *)
(* The objects made before the restart carry the ids 11 to 22; the ids the *)
(* gateway hands out in this run start at FirstId again.                   *)
(***************************************************************************)
EarlierEvents ==
    <<  <<1, NameDEF, 1, 11, 12, 13, 14,
          isoformat(DateTime(LeapDay, "UTC")), TRUE, "CURRENT_TIMESTAMP">>,
        <<2, NameC1, 1, 15, 16, 17, 18,
          isoformat(DateTime(LeapDay, "UTC")), TRUE, "CURRENT_TIMESTAMP">>,
        <<3, NameDEF, 2, 19, 20, 21, 22,
          isoformat(DateTime(NewYearsEve, "UTC")), TRUE, "CURRENT_TIMESTAMP">> >>

InitRestart ==
    /\ store = EarlierEvents
    /\ roles = {r[4] : r \in RowsOf(EarlierEvents)}
    /\ textChannels = [i \in {r[5] : r \in RowsOf(EarlierEvents)} |-> NewChannel]
    /\ voiceChannels = {r[6] : r \in RowsOf(EarlierEvents)}
    /\ categories = { [id |-> 1, guild |-> 1, name |-> "General"],
                      [id |-> 2, guild |-> 2, name |-> "ARCHIVED"] }
    /\ grants = {}
    /\ joined = Guilds
    /\ nextId = FirstId
    /\ now = UtcInstant(LeapDay) - 3600
    /\ pending = <<>>
    /\ notices = <<>>
    /\ passes = NoPasses
    /\ NothingAside

\* the loop, the clock, and what happens to a guild and to the text
\* channels of its events meanwhile
NextRestart ==
    \/ Sweep
    \/ Cleanup
    \/ \E t \in ClockValues : Tick(t)
    \/ \E r \in RowsOf(store) : AdminDelete(r[5])
    \/ \E g \in Guilds : GuildRemove(g)

SpecRestart == InitRestart /\ [][NextRestart]_vars

(***************************************************************************)
(* _cleanup_ctf_event await by await.  Between two awaits a pass runs      *)
(* alone; while it is suspended in a gateway call another pass over the    *)
(* same tuple can run, and the task can be cancelled (cog_unload).  The    *)
(* table holds one event, announced in guild 1 and past its end time.      *)
(***************************************************************************)
\* the calls a pass can be suspended in
Awaited == {"role", "edit", "category", "move", "voice", "send"}
Ended == {"done", "failed", "cancelled"}

\* the guild objects as a gateway call leaves them
World(rs, gs, tcs, cats, vcs, nid) ==
    [roles |-> rs, grants |-> gs, textChannels |-> tcs, categories |-> cats,
     voiceChannels |-> vcs, nextId |-> nid]

ThisWorld == World(roles, grants, textChannels, categories, voiceChannels, nextId)

\* what the gateway does for the call a pass is suspended in when it
\* answers o; deleting what is gone and editing what is gone change nothing
CallEffect(call, d, archive, o, w) ==
    IF o # "ok" THEN w
    ELSE CASE call = "role" ->
                [w EXCEPT !.roles = @ \ {d[4]},
                          !.grants = {gr \in @ : gr[2] # d[4]}]
           [] call = "edit" ->
                IF d[5] \in DOMAIN w.textChannels
                THEN [w EXCEPT !.textChannels[d[5]].public = TRUE] ELSE w
           [] call = "category" ->
                [w EXCEPT !.categories =
                              @ \cup {[id |-> w.nextId, guild |-> d[3], name |-> "Archive"]},
                          !.nextId = @ + 1]
           [] call = "move" ->
                IF d[5] \in DOMAIN w.textChannels
                THEN [w EXCEPT !.textChannels[d[5]].category = archive] ELSE w
           [] call = "voice" -> [w EXCEPT !.voiceChannels = @ \ {d[6]}]
           [] OTHER -> w

\* the answers the gateway can give to the call: a delete of what is
\* already gone and an edit of a channel that is gone are refused
CallAnswers(call, d, w) ==
    CASE call = "role" -> IF d[4] \in w.roles THEN Outcomes ELSE {"Error"}
      [] call = "voice" -> IF d[6] \in w.voiceChannels THEN Outcomes ELSE {"Error"}
      [] call \in {"edit", "move"} ->
            IF d[5] \in DOMAIN w.textChannels THEN Outcomes ELSE {"Error"}
      [] OTHER -> Outcomes

\* where a pass goes once the voice-channel step is behind it: the notice
\* call raises TypeError when it does not bind, else the pass is suspended
\* in channel.send; without a text channel it goes on to deactivate
AfterVoice(d, w) ==
    IF d[5] # NoId /\ d[5] \in DOMAIN w.textChannels
    THEN (IF Binds(SendMessageSafelyParams, 1, NoticeKeywords) THEN "send"
          ELSE "failed")
    ELSE "deactivate"

\* ... once the text-channel step is behind it
AfterText(d, w) ==
    IF d[6] # NoId /\ d[6] \in w.voiceChannels THEN "voice" ELSE AfterVoice(d, w)

\* ... once the role step is behind it
AfterRole(d, w) ==
    IF d[5] # NoId /\ d[5] \in DOMAIN w.textChannels THEN "edit" ELSE AfterText(d, w)

\* ... from its first statement
AtEntry(d, w) ==
    IF ~GuildFound(d[3]) THEN "deactivate"
    ELSE IF d[4] # NoId /\ d[4] \in w.roles THEN "role" ELSE AfterRole(d, w)

\* the archive category a pass finds after its edit, or NoId
FoundArchive(d, w) ==
    LET found == ArchiveCategories(w.categories, d[3])
    IN  IF found = {} THEN NoId
        ELSE (CHOOSE c \in found : \A e \in found : c.id <= e.id).id

\* where the pass goes when the call it was suspended in has answered o
\* and left the world w: <<next, archive category held>>
AfterCall(call, d, archive, o, w) ==
    CASE call = "role" -> <<AfterRole(d, w), archive>>
      [] call = "edit" ->
            IF o # "ok" THEN <<AfterText(d, w), archive>>
            ELSE IF FoundArchive(d, w) # NoId THEN <<"move", FoundArchive(d, w)>>
            ELSE <<"category", NoId>>
      [] call = "category" ->
            IF o = "ok" THEN <<"move", w.nextId - 1>> ELSE <<AfterText(d, w), NoId>>
      [] call = "move" -> <<AfterText(d, w), archive>>
      [] call = "voice" -> <<AfterVoice(d, w), archive>>
      [] OTHER -> <<"deactivate", archive>>

\* the notices once channel.send has answered o
Noticed(call, d, o) ==
    IF call = "send" /\ o = "ok" THEN Append(notices, d[5]) ELSE notices

\* the pass has run up to its next await, or to its end: "deactivate" is
\* no await, the row is written and the pass is done
Arrive(p, d, next, archive, again, won, w) ==
    /\ w.nextId <= MaxId + 1
    /\ roles' = w.roles
    /\ grants' = w.grants
    /\ textChannels' = w.textChannels
    /\ categories' = w.categories
    /\ voiceChannels' = w.voiceChannels
    /\ nextId' = w.nextId
    /\ store' = IF next = "deactivate" THEN deactivate_ctf_event(store, d[2], d[3])
                ELSE store
    /\ passes' = [passes EXCEPT ![p] =
                    [pc |-> IF next = "deactivate" THEN "done" ELSE next,
                     ctf_data |-> d, archive |-> archive,
                     again |-> again, won |-> won]]

\* a loop iteration hands an event it selected to _cleanup_ctf_event
Begin(p) ==
    /\ passes[p].pc \in {"idle"} \cup Ended
    /\ \E d \in get_ctf_events_to_end(store, now) :
        Arrive(p, d, AtEntry(d, ThisWorld), NoId,
               passes[p].pc = "cancelled", {}, ThisWorld)
    /\ UNCHANGED <<joined, now, pending, notices, aside>>

\* the gateway answers the call the pass is suspended in
Resume(p) ==
    /\ passes[p].pc \in Awaited
    /\ LET q == passes[p]
       IN  \E o \in CallAnswers(q.pc, q.ctf_data, ThisWorld) :
            LET w == CallEffect(q.pc, q.ctf_data, q.archive, o, ThisWorld)
                to == AfterCall(q.pc, q.ctf_data, q.archive, o, w)
                won == IF o = "ok" /\ q.pc \in {"role", "voice"}
                       THEN q.won \cup {q.pc} ELSE q.won
            IN  /\ Arrive(p, q.ctf_data, to[1], to[2], q.again, won, w)
                /\ notices' = Noticed(q.pc, q.ctf_data, o)
    /\ UNCHANGED <<joined, now, pending, aside>>

\* the task is cancelled while the pass is suspended: CancelledError is no
\* Exception and ends the pass; the call may or may not have been carried out
Cancel(p) ==
    /\ passes[p].pc \in Awaited
    /\ LET q == passes[p]
       IN  \E o \in {"ok", "Error"} :
            /\ o \in CallAnswers(q.pc, q.ctf_data, ThisWorld)
            /\ Arrive(p, q.ctf_data, "cancelled", q.archive, q.again, q.won,
                      CallEffect(q.pc, q.ctf_data, q.archive, o, ThisWorld))
            /\ notices' = Noticed(q.pc, q.ctf_data, o)
    /\ UNCHANGED <<joined, now, pending, aside>>

\* one event announced in guild 1 (ids 3 to 6), its end time set to
\* 2024-02-29 12:30 UTC, an hour ago
InitPasses ==
    /\ store = update_ctf_event(insert_ctf_event(<<>>, NameDEF, 1, 3, 4, 5, 6),
                                NameDEF, 1, isoformat(DateTime(LeapDay, "UTC")))
    /\ roles = {3}
    /\ textChannels = [i \in {4} |-> NewChannel]
    /\ voiceChannels = {5}
    /\ categories = { [id |-> 1, guild |-> 1, name |-> "General"],
                      [id |-> 2, guild |-> 2, name |-> "ARCHIVED"] }
    /\ grants = {<<51, 3>>}
    /\ joined = Guilds
    /\ nextId = 7
    /\ now = UtcInstant(LeapDay) + 3600
    /\ pending = <<>>
    /\ notices = <<>>
    /\ passes = NoPasses
    /\ NothingAside

NextPasses ==
    \/ \E p \in Passes : Begin(p)
    \/ \E p \in Passes : Resume(p)
    \/ \E p \in Passes : Cancel(p)
    \/ \E r \in RowsOf(store) : AdminDelete(r[5])

SpecPasses == InitPasses /\ [][NextPasses]_vars

(***************************************************************************)
(* chunk_message(message, chunk_size)  (src/src/bot/utils/helpers.py)      *)
(***************************************************************************)
Alphabet == {"a", "b"}

\* the strings of at most n characters
Strings(n) == UNION {[1..k -> Alphabet] : k \in 0..n}

\* list(range(start, stop, step)) for a step that is not zero
Range(start, stop, step) ==
    LET count == IF step > 0
                 THEN (IF stop > start THEN (stop - start + step - 1) \div step ELSE 0)
                 ELSE (IF start > stop THEN (start - stop - step - 1) \div (0 - step)
                       ELSE 0)
    IN  [k \in 1..count |-> start + (k - 1) * step]

\* a slice that takes the character at j too
SliceInclusive(s, i, j) == SubSeq(s, i + 1, IF j + 1 > Len(s) THEN Len(s) ELSE j + 1)

\* s[i:j] for 0 <= i <= j: the characters at the 0-based positions i to
\* j - 1, cut off at the end of s
Slice(s, i, j) == SubSeq(s, i + 1, IF j > Len(s) THEN Len(s) ELSE j)

\* [message[i : i + chunk_size] for i in range(0, len(message), chunk_size)]
chunk_message(m, n) ==
    LET starts == Range(0, Len(m), n)
    IN  [k \in 1..Len(starts) |-> Slice(m, starts[k], starts[k] + n)]

\* the chunks of a list joined in order
RECURSIVE Concat(_)
Concat(list) == IF list = <<>> THEN <<>> ELSE Head(list) \o Concat(Tail(list))

\* a caller hands chunk_message a message and a chunk size
InitChunk ==
    /\ store = <<>>
    /\ roles = {}
    /\ textChannels = [i \in {} |-> NewChannel]
    /\ voiceChannels = {}
    /\ categories = {}
    /\ grants = {}
    /\ joined = Guilds
    /\ nextId = FirstId
    /\ now = UtcInstant(LeapDay) - 3600
    /\ pending = <<>>
    /\ notices = <<>>
    /\ passes = NoPasses
    /\ announces = NoAnnounces
    /\ alpacahack_user = {}
    /\ content \in Strings(MaxLen)
    /\ chunk_size \in (0 - 1)..MaxChunk
    /\ returned = <<>>

\* the call returns; a chunk size of zero raises ValueError in range()
ChunkMessage ==
    /\ returned = <<>>
    /\ chunk_size # 0
    /\ returned' = <<chunk_message(content, chunk_size)>>
    /\ UNCHANGED <<store, roles, textChannels, voiceChannels, categories, grants,
                   joined, nextId, now, pending, notices, passes,
                   announces, alpacahack_user, content, chunk_size>>

NextChunk == ChunkMessage

SpecChunk == InitChunk /\ [][NextChunk]_vars

(***************************************************************************)
(* The alpacahack_user table (src/src/bot/db/database.py).  A connection   *)
(* sees the committed table and its own statements; what it has not        *)
(* committed when it is closed is rolled back.                             *)
(***************************************************************************)
AlpacaNames == {"alice", "bob", "carol", "dave", "erin", "frank", "grace"}

\* sqlite3.connect(DATABASE_NAME): the committed names and the names the
\* statements of the connection see
get_db_connection(tbl) == [table |-> tbl, rows |-> tbl]

\* cursor.execute("INSERT INTO alpacahack_user (name) VALUES (?)", (name,));
\* the UNIQUE constraint refuses a name that is there (IntegrityError)
ExecuteInsert(conn, name) ==
    IF name \in conn.rows THEN [conn |-> conn, error |-> TRUE]
    ELSE [conn |-> [conn EXCEPT !.rows = @ \cup {name}], error |-> FALSE]

\* a rowcount that counts the rows the statement looked at
rowcountOfTable(before, after) == Cardinality(before)

\* cursor.rowcount after a DELETE: the rows the statement removed
rowcount(before, after) == Cardinality(before \ after)

\* cursor.execute("DELETE FROM alpacahack_user WHERE name=?", (name,))
ExecuteDelete(conn, name) ==
    [conn |-> [conn EXCEPT !.rows = @ \ {name}],
     rowcount |-> rowcount(conn.rows, conn.rows \ {name})]

\* conn.commit()
commit(conn) == [conn EXCEPT !.table = conn.rows]

\* conn.close(): the table the next connection finds
close(conn) == conn.table

\* execute_query("INSERT ..."): execute, commit, close
insert_alpacahack_user(tbl, name) ==
    LET done == ExecuteInsert(get_db_connection(tbl), name)
    IN  IF done.error
        THEN [reply |-> <<"Insert error: ", "IntegrityError">>,
              table |-> close(done.conn)]
        ELSE [reply |-> <<"User '", name, "' added.">>,
              table |-> close(commit(done.conn))]

\* delete_alpacahack_user(name) of database.py: execute, look at the
\* rowcount, return; the with block closes the connection
delete_alpacahack_user(tbl, name) ==
    LET cursor == ExecuteDelete(get_db_connection(tbl), name)
    IN  [reply |-> IF cursor.rowcount = 0 THEN <<"No user: ", name>>
                   ELSE <<"Deleted user: ", name>>,
         table |-> close(cursor.conn)]

\* delete_alpacahack_user(conn, name) of the Alpacahack cog, as its
\* del_alpaca command calls it: execute, look at the rowcount, commit
del_alpaca(tbl, name) ==
    LET cursor == ExecuteDelete(get_db_connection(tbl), name)
    IN  [reply |-> IF cursor.rowcount = 0 THEN <<"No user : ", name>>
                   ELSE <<"Deleted user: ", name>>,
         table |-> close(commit(cursor.conn))]

\* fetch_all("SELECT name FROM alpacahack_user") on a connection of its own
get_all_alpacahack_users(tbl) == get_db_connection(tbl).rows

InsertAlpacahackUser(name) ==
    /\ alpacahack_user' = insert_alpacahack_user(alpacahack_user, name).table
    /\ UNCHANGED <<store, roles, textChannels, voiceChannels, categories, grants,
                   joined, nextId, now, pending, notices, passes,
                   announces, content, chunk_size, returned>>

DeleteAlpacahackUser(name) ==
    /\ alpacahack_user' = delete_alpacahack_user(alpacahack_user, name).table
    /\ UNCHANGED <<store, roles, textChannels, voiceChannels, categories, grants,
                   joined, nextId, now, pending, notices, passes,
                   announces, content, chunk_size, returned>>

DelAlpaca(name) ==
    /\ alpacahack_user' = del_alpaca(alpacahack_user, name).table
    /\ UNCHANGED <<store, roles, textChannels, voiceChannels, categories, grants,
                   joined, nextId, now, pending, notices, passes,
                   announces, content, chunk_size, returned>>

NextAlpaca ==
    \/ \E name \in AlpacaNames : InsertAlpacahackUser(name)
    \/ \E name \in AlpacaNames : DeleteAlpacahackUser(name)
    \/ \E name \in AlpacaNames : DelAlpaca(name)

SpecAlpaca == Init /\ [][NextAlpaca]_vars

(***************************************************************************)
(* announce_ctf await by await.  Two invocations are in flight: each runs  *)
(* alone between two awaits, and while one is suspended in a gateway call  *)
(* the other can run, its lookup of the name included.                     *)
(***************************************************************************)
\* the calls an invocation can be suspended in: the reply that turns it
\* away, the calls of the try block, the reply of an except clause
AnnounceAwaited ==
    {"reject", "create_role", "create_text_channel", "create_voice_channel",
     "send_message", "original_response", "add_reaction", "except"}

\* the user invokes /announce_ctf name in guild g: the handler runs up to
\* its first await, the reply that turns it away or create_role
Invoke(p, g, name) ==
    /\ announces[p].pc = "idle"
    /\ g \in joined \cup {NoGuild}
    /\ announces' = [announces EXCEPT ![p] =
            [IdleAnnounce EXCEPT
                !.pc = IF g = NoGuild \/ ~IsValidName(name)
                          \/ AlreadyExists(store, name, g)
                       THEN "reject" ELSE "create_role",
                !.name = name, !.guild = g]]
    /\ UNCHANGED <<store, roles, textChannels, voiceChannels, categories, grants,
                   joined, nextId, now, pending, notices, passes,
                   alpacahack_user, content, chunk_size, returned>>

\* where the try block goes when the call it was suspended in raised: to the
\* reply of the except clause, which raises InteractionResponded at once
\* when the announcement has been sent
AfterRaise(call) ==
    IF call \in {"original_response", "add_reaction"} THEN "failed" ELSE "except"

\* the gateway answers the call invocation p is suspended in; when
\* add_reaction has returned the handler calls insert_ctf_event and ends
Return(p) ==
    /\ announces[p].pc \in AnnounceAwaited
    /\ LET q == announces[p]
           Goes(r) == announces' = [announces EXCEPT ![p] = r]
       IN  \E o \in Outcomes :
            CASE q.pc = "reject" ->
                    /\ o = "ok"
                    /\ Goes([q EXCEPT !.pc = "rejected"])
                    /\ UNCHANGED <<store, roles, textChannels, voiceChannels, nextId>>
              [] q.pc = "except" ->
                    /\ o = "ok"
                    /\ Goes([q EXCEPT !.pc = "failed"])
                    /\ UNCHANGED <<store, roles, textChannels, voiceChannels, nextId>>
              [] q.pc \notin {"reject", "except"} /\ o # "ok" ->
                    /\ Goes([q EXCEPT !.pc = AfterRaise(q.pc)])
                    /\ UNCHANGED <<store, roles, textChannels, voiceChannels, nextId>>
              [] q.pc = "create_role" /\ o = "ok" ->
                    /\ Goes([q EXCEPT !.pc = "create_text_channel", !.role = nextId])
                    /\ roles' = roles \cup {nextId}
                    /\ nextId' = nextId + 1
                    /\ UNCHANGED <<store, textChannels, voiceChannels>>
              [] q.pc = "create_text_channel" /\ o = "ok" ->
                    /\ Goes([q EXCEPT !.pc = "create_voice_channel",
                                      !.text_channel = nextId])
                    /\ textChannels' = WithChannel(textChannels, nextId, NewChannel)
                    /\ nextId' = nextId + 1
                    /\ UNCHANGED <<store, roles, voiceChannels>>
              [] q.pc = "create_voice_channel" /\ o = "ok" ->
                    /\ Goes([q EXCEPT !.pc = "send_message", !.voice_channel = nextId])
                    /\ voiceChannels' = voiceChannels \cup {nextId}
                    /\ nextId' = nextId + 1
                    /\ UNCHANGED <<store, roles, textChannels>>
              [] q.pc = "send_message" /\ o = "ok" ->
                    /\ Goes([q EXCEPT !.pc = "original_response", !.message = nextId])
                    /\ nextId' = nextId + 1
                    /\ UNCHANGED <<store, roles, textChannels, voiceChannels>>
              [] q.pc = "original_response" /\ o = "ok" ->
                    /\ Goes([q EXCEPT !.pc = "add_reaction"])
                    /\ UNCHANGED <<store, roles, textChannels, voiceChannels, nextId>>
              [] q.pc = "add_reaction" /\ o = "ok" ->
                    LET saved == SaveToDatabase(store, q.name, q.guild, q.role,
                                                q.text_channel, q.voice_channel,
                                                q.message)
                    IN  /\ store' = saved
                        /\ Goes([q EXCEPT !.pc = IF saved = store THEN "refused"
                                                 ELSE "done"])
                        /\ UNCHANGED <<roles, textChannels, voiceChannels, nextId>>
    /\ UNCHANGED <<categories, grants, joined, now, pending, notices, passes,
                   alpacahack_user, content, chunk_size, returned>>

NextAnnounces ==
    \/ \E p \in Announcers, g \in Guilds \cup {NoGuild}, name \in NameInputs :
          Invoke(p, g, name)
    \/ \E p \in Announcers : Return(p)

SpecAnnounces == Init /\ [][NextAnnounces]_vars

(***************************************************************************)
(* A name used again.  The cog runs over a table that holds the row of an  *)
(* event DEF of guild 1 that ended at 2024-02-29 12:30 UTC and was         *)
(* deactivated; its role and channels (ids 101 to 103, of an earlier run   *)
(* of the gateway, which hands out no id twice) are gone.                  *)
(***************************************************************************)
EndedEvent ==
    <<1, NameDEF, 1, 101, 102, 103, 104,
      isoformat(DateTime(LeapDay, "UTC")), FALSE, "CURRENT_TIMESTAMP">>

InitReuse ==
    /\ store = <<EndedEvent>>
    /\ roles = {}
    /\ textChannels = [i \in {} |-> NewChannel]
    /\ voiceChannels = {}
    /\ categories = { [id |-> 1, guild |-> 1, name |-> "General"],
                      [id |-> 2, guild |-> 2, name |-> "ARCHIVED"] }
    /\ grants = {}
    /\ joined = Guilds
    /\ nextId = FirstId
    /\ now = UtcInstant(LeapDay)
    /\ pending = <<>>
    /\ notices = <<>>
    /\ passes = NoPasses
    /\ NothingAside

SpecReuse == InitReuse /\ [][Next]_vars

(***************************************************************************)
(* Properties                                                              *)
(***************************************************************************)
\* the result r of a handler run from this state changed nothing and
\* called nothing
NothingDone(r) ==
    /\ r.store = store
    /\ r.roles = roles
    /\ r.textChannels = textChannels
    /\ r.voiceChannels = voiceChannels
    /\ r.nextId = nextId
    /\ r.calls = <<>>

HasActiveEvent(name, g) ==
    \E r \in RowsOf(store) : r[2] = name /\ r[3] = g /\ r[9]

\* C1: announce_ctf for a name that already has an active event in the guild
\* (a successful announce_ctf came before) is answered AlreadyExists and
\* creates no role, no channel and no row.
C1_SecondAnnounceRejected ==
    \A g \in joined, name \in NameInputs :
        HasActiveEvent(name, g) =>
            \A f \in AnnounceFailures :
                LET r == AnnounceResult(g, name, f)
                IN  r.replies = <<"AlreadyExists">> /\ NothingDone(r)

\* an event is active, its role and channels exist, and announcing its name
\* again is turned away
C1_Witness ==
    \E row \in RowsOf(store) :
        /\ row[9] /\ row[3] \in joined
        /\ row[4] \in roles /\ row[5] \in DOMAIN textChannels
        /\ AnnounceResult(row[3], row[2], NoFailure).replies = <<"AlreadyExists">>

\* C2: a cleanup pass over an event whose guild is found calls
\* deactivate_ctf_event, whichever of its gateway calls succeed or fail.
C2_CleanupAlwaysDeactivates ==
    \A d \in RowsOf(pending) :
        d[3] \in joined =>
            \A o \in CleanupOutcomes(d) :
                Has(CleanupResult(d, o).calls, "deactivate_ctf_event")

\* C3: a sweep finds an active event whose end time has passed, its guild,
\* its role and both its channels, and every gateway call succeeds: after
\* the pass the event is no longer active and get_ctf_event finds nothing.
C3_EndedEventIsDeactivated ==
    \A d \in RowsOf(pending) :
        ( /\ d[9] /\ d[8] # NULL /\ InstantOf(d[8]) < now
          /\ d[3] \in joined
          /\ d[4] \in roles /\ d[5] \in DOMAIN textChannels /\ d[6] \in voiceChannels )
        => LET r == CleanupResult(d, AllOk)
           IN  /\ get_ctf_event(r.store, d[2], d[3]) = None
               /\ \A row \in RowsOf(r.store) : row[1] = d[1] => ~row[9]

\* a name of letters, digits, underscores and hyphens only, with at least
\* one letter or digit
NameAllowed(name) ==
    /\ \A i \in 1..Len(name) : name[i] \in Letters \cup Digits \cup {"_", "-"}
    /\ \E i \in 1..Len(name) : name[i] \in Letters \cup Digits

\* C4: announce_ctf with a name that has a character other than letters,
\* digits, underscores and hyphens, or that has no letter or digit at all,
\* is answered InvalidName before any gateway call; the table, the roles and
\* the channels are as before.
C4_InvalidNameRejected ==
    \A g \in joined, name \in NameInputs :
        ~NameAllowed(name) =>
            \A f \in AnnounceFailures :
                LET r == AnnounceResult(g, name, f)
                IN  r.replies = <<"InvalidName">> /\ NothingDone(r)

\* events and roles exist, and a name of underscores and hyphens only is
\* turned away just as one with a blank in it
C4_Witness ==
    /\ store # <<>> /\ roles # {}
    /\ \E g \in joined :
        /\ AnnounceResult(g, <<"_", "-">>, NoFailure).replies = <<"InvalidName">>
        /\ AnnounceResult(g, <<"D", "E", "F", " ", "C", "O", "N", "!">>,
                          NoFailure).replies = <<"InvalidName">>

\* C5: when announce_ctf succeeds (the announcement is posted and no
\* exception leaves the handler) the table holds exactly one active row for
\* (name, guild); its role, text channel, voice channel and message ids are
\* non-null and are the objects this call created, and its end time is null.
C5_AnnounceStoresWhatItMade ==
    \A g \in joined, name \in NameInputs, f \in AnnounceFailures :
        LET r == AnnounceResult(g, name, f)
            rows == {q \in RowsOf(r.store) : q[2] = name /\ q[3] = g /\ q[9]}
        IN  (r.replies = <<"Announcement">> /\ ~r.raised) =>
                /\ Cardinality(rows) = 1
                /\ \A q \in rows :
                    /\ q \notin RowsOf(store)
                    /\ NoId \notin {q[4], q[5], q[6], q[7]}
                    /\ <<q[4], q[5], q[6], q[7]>> = r.made
                    /\ q[4] \in r.roles \ roles
                    /\ q[5] \in DOMAIN r.textChannels \ DOMAIN textChannels
                    /\ q[6] \in r.voiceChannels \ voiceChannels
                    /\ q[8] = NULL

\* a successful announce_ctf has run: its row is there, active, without an
\* end time, and the role and channels it names exist
C5_Witness ==
    \E q \in RowsOf(store) :
        /\ q[9] /\ q[8] = NULL
        /\ q[4] \in roles /\ q[5] \in DOMAIN textChannels /\ q[6] \in voiceChannels
        /\ q[7] = q[4] + 3

\* the end_time text as strptime reads its fields: a missing second is 0
Padded(text) ==
    IF Len(text.fields) = 5 THEN Append(text.fields, 0) ELSE text.fields

\* the text is written in one of the accepted formats and names a real date
\* and time of day
InAcceptedFormat(text) ==
    /\ \E i \in 1..Len(Formats) : text.shape \in FormatShapes(Formats[i])
    /\ Len(Padded(text)) = 6
    /\ ValidFields(Padded(text))

\* C6: settime_ctf for an existing event with an end_time in none of the
\* accepted formats is answered InvalidTimeFormat; the stored end time and
\* everything else is as before.
C6_BadEndTimeChangesNothing ==
    \A g \in joined, name \in NameInputs, text \in EndTimeInputs :
        (HasActiveEvent(name, g) /\ ~InAcceptedFormat(text)) =>
            \A db \in {"ok", "Error"} :
                LET r == SettimeResult(g, name, text, db)
                IN  r.replies = <<"InvalidTimeFormat">> /\ NothingDone(r)

\* an event has an end time stored, and a settime_ctf with a text that is
\* no date leaves it there
C6_Witness ==
    \E row \in RowsOf(store) :
        /\ row[9] /\ row[8] # NULL /\ row[3] \in joined
        /\ LET r == SettimeResult(row[3], row[2], Text("not-a-date", <<>>), "ok")
           IN  r.replies = <<"InvalidTimeFormat">> /\ r.store = store

\* the end time settime_ctf stores for (name, g) when given the text
StoredEndTime(g, name, text) ==
    get_ctf_event(SettimeResult(g, name, text, "ok").store, name, g)[8]

\* C7: settime_ctf with an end_time in an accepted format stores the instant
\* that has the same calendar fields read as UTC; texts in different formats
\* that name the same date and time store equal instants.
C7_EndTimeStoredAsUTC ==
    \A g \in joined, name \in NameInputs :
        HasActiveEvent(name, g) =>
            /\ \A text \in EndTimeInputs :
                InAcceptedFormat(text) =>
                    /\ SettimeResult(g, name, text, "ok").replies = <<"EndTimeSet">>
                    /\ StoredEndTime(g, name, text) =
                           Text("N-N-NTN:N:N+00:00", Padded(text))
                    /\ InstantOf(StoredEndTime(g, name, text)) =
                           UtcInstant(Padded(text))
            /\ \A t1, t2 \in EndTimeInputs :
                (InAcceptedFormat(t1) /\ InAcceptedFormat(t2)
                 /\ Padded(t1) = Padded(t2)) =>
                    InstantOf(StoredEndTime(g, name, t1)) =
                        InstantOf(StoredEndTime(g, name, t2))

\* settime_ctf has stored 2024-02-29 12:30, and the three formats of that
\* date store the very same instant
C7_Witness ==
    \E row \in RowsOf(store) :
        /\ row[9] /\ row[3] \in joined
        /\ row[8] # NULL /\ InstantOf(row[8]) = UtcInstant(LeapDay)
        /\ \A text \in {Text("N-N-NTN:N:N", LeapDay), Text("N-N-N N:N:N", LeapDay),
                        Text("N-N-NTN:N", SubSeq(LeapDay, 1, 5))} :
              StoredEndTime(row[3], row[2], text) = row[8]

\* C8: a sweep processes exactly the active events whose end time is set
\* and not later than now, each of them once.
C8_SweepTakesEndedEvents ==
    \A q \in SweepLists("ok") :
        /\ RowsOf(q) = {r \in RowsOf(store) :
                            r[9] /\ r[8] # NULL /\ InstantOf(r[8]) <= now}
        /\ Len(q) = Cardinality(RowsOf(q))

\* a sweep has taken up an event whose end time is this very instant
C8_Witness ==
    \E d \in RowsOf(pending) :
        d[9] /\ d[8] # NULL /\ InstantOf(d[8]) = now

IsActiveAnnouncement(message, g) ==
    \E r \in RowsOf(store) : r[7] = message /\ r[3] = g /\ r[9]

\* C9: a reaction added to a message that is not the announcement of an
\* active event of that guild grants no role, calls nothing and raises
\* nothing.
C9_StrayReactionGrantsNothing ==
    \A user \in Users, emoji \in Emojis, message \in MessageInputs,
       g \in Guilds \cup {NoGuild} :
        ~IsActiveAnnouncement(message, g) =>
            \A a \in ReactionAnswers :
                LET r == ReactionAddResult(user, emoji, message, g, a)
                IN  r.grants = grants /\ r.calls = <<>> /\ ~r.raised

\* an event is no longer active while its role is still there: a marker
\* reaction on its announcement grants nothing
C9_Witness ==
    \E row \in RowsOf(store), user \in Users \ {BotUser} :
        /\ ~row[9] /\ row[3] \in joined /\ row[4] \in roles
        /\ ReactionAddResult(user, FLAG, row[7], row[3], SmoothAnswer).grants = grants

\* the teardown of the event of row d is done: role and voice channel are
\* gone, the text channel is public and in an archive category
TornDown(d) ==
    /\ d[4] \notin roles
    /\ d[6] \notin voiceChannels
    /\ d[5] \in DOMAIN textChannels
    /\ textChannels[d[5]].public
    /\ textChannels[d[5]].category \in
           {c.id : c \in ArchiveCategories(categories, d[3])}

\* C10: once an event has been torn down, a later sweep makes no gateway
\* call for it, and the event is inactive after it.
C10_SecondSweepDoesNothing ==
    \A d \in RowsOf(pending) :
        (d[3] \in joined /\ TornDown(d)) =>
            \A o \in CleanupOutcomes(d) :
                LET r == CleanupResult(d, o)
                IN  /\ GatewayCalls(r.calls) = <<>>
                    /\ get_ctf_event(r.store, d[2], d[3]) = None

\* announce_ctf(name) in guild g ends in an error when the try block ends as f
AnnounceEndsInError(g, name, f) ==
    \/ g = NoGuild
    \/ ~NameAllowed(name)
    \/ HasActiveEvent(name, g)
    \/ f # NoFailure

\* settime_ctf(name, text) in guild g ends in an error when its try block
\* ends as db
SettimeEndsInError(g, name, text, db) ==
    \/ g = NoGuild
    \/ ~HasActiveEvent(name, g)
    \/ ~InAcceptedFormat(text)
    \/ db # "ok"

AnnounceGatewaySteps ==
    {"create_role", "create_text_channel", "create_voice_channel",
     "send_message", "add_reaction"}

\* C12: when a gateway call of announce_ctf fails (create role, create text
\* channel, create voice channel, post announcement, add reaction) the
\* failure is reported to the invoking user, no row is inserted, and the
\* objects created before the failure stay.
C12_GatewayFailureReported ==
    \A g \in joined, name \in NameInputs, f \in AnnounceFailures :
        (NameAllowed(name) /\ ~HasActiveEvent(name, g)
         /\ f[1] \in AnnounceGatewaySteps) =>
            LET r == AnnounceResult(g, name, f)
            IN  /\ \E i \in 1..Len(r.replies) :
                       r.replies[i] \in {"PermissionDenied", "Failure"}
                /\ r.store = store
                /\ roles \subseteq r.roles
                /\ \A id \in {r.made[1]} \ {NoId} : id \in r.roles
                /\ \A id \in {r.made[2]} \ {NoId} : id \in DOMAIN r.textChannels
                /\ \A id \in {r.made[3]} \ {NoId} : id \in r.voiceChannels

\* C13: settime_ctf for a name with no active event in the invoking guild
\* (never announced, announced in another guild, deactivated) replies
\* NotFound and changes no row.
C13_SettimeNeedsActiveEvent ==
    \A g \in joined, name \in NameInputs, text \in EndTimeInputs,
       db \in SettimeAnswers :
        ~HasActiveEvent(name, g) =>
            LET r == SettimeResult(g, name, text, db)
            IN  r.replies = <<"NotFound">> /\ NothingDone(r)

\* the table holds a deactivated event and the bot is still in its guild
\* and in another one: a settime_ctf for it, in either guild, finds nothing
C13_Witness ==
    \E row \in RowsOf(store) :
        /\ ~row[9] /\ joined = Guilds
        /\ ~HasActiveEvent(row[2], row[3])
        /\ \A g \in Guilds :
            SettimeResult(g, row[2], Text("N-N-NTN:N:N", NewYearsEve),
                          "ok").replies = <<"NotFound">>

\* the tables a handler started in this state can leave: announce_ctf and
\* settime_ctf with any input and any failure, and a cleanup pass over any
\* row a sweep is processing or would select, with any gateway answers (the
\* reaction listeners write nothing to the table)
HandlerStores ==
    {AnnounceResult(g, name, f).store :
        g \in joined \cup {NoGuild}, name \in NameInputs, f \in AnnounceFailures}
    \cup {SettimeResult(g, name, text, db).store :
        g \in joined \cup {NoGuild}, name \in NameInputs,
        text \in EndTimeInputs, db \in SettimeAnswers}
    \cup UNION {{CleanupResult(d, o).store : o \in CleanupOutcomes(d)} :
        d \in RowsOf(pending) \cup get_ctf_events_to_end(store, now)}

\* from table a to table b no inactive row has become active
StaysInactive(a, b) ==
    \A i \in 1..Len(a) :
        ~a[i][9] => (i <= Len(b) /\ b[i][1] = a[i][1] /\ ~b[i][9])

\* C14: a row whose is_active is false stays so: no announce, settime,
\* reaction or sweep turns it active again, neither in a step taken nor in
\* the table any handler would leave.
C14_InactiveStaysInactive ==
    /\ [](\A t \in HandlerStores : StaysInactive(store, t))
    /\ [][StaysInactive(store, store')]_vars

\* an event was deactivated; announcing its name again in its guild
\* appends a new active row and leaves the old one inactive
C14_Witness ==
    \E row \in RowsOf(store) :
        /\ ~row[9] /\ row[3] \in joined
        /\ LET t == AnnounceResult(row[3], row[2], NoFailure).store
           IN  /\ Len(t) = Len(store) + 1
               /\ t[Len(t)][9] /\ t[Len(t)][2] = row[2]
               /\ ~t[row[1]][9]

\* from table a to table b every row is kept: same place, same id, name,
\* guild, object ids and creation time
RowsKept(a, b) ==
    /\ Len(b) >= Len(a)
    /\ \A i \in 1..Len(a) :
        /\ SubSeq(b[i], 1, 7) = SubSeq(a[i], 1, 7)
        /\ b[i][10] = a[i][10]

\* C15: no announce, settime, reaction or sweep removes a row: every row
\* that was in the table is still there, active or not, after every step
\* and in the table any handler would leave.
C15_RowsAreKept ==
    /\ [](\A t \in HandlerStores : RowsKept(store, t))
    /\ [][RowsKept(store, store')]_vars

\* the bot has left the guild of an event and the cleanup has deactivated
\* it: the row is still in the table
C15_Witness ==
    \E row \in RowsOf(store) :
        ~row[9] /\ row[3] \notin joined /\ row[4] \in roles

\* C16: a cleanup pass over an expired event whose guild is no longer
\* found makes no gateway call and deactivates the event in that pass.
C16_GuildGoneDeactivatesAtOnce ==
    \A d \in RowsOf(pending) :
        d[3] \notin joined =>
            \A o \in CleanupOutcomes(d) :
                LET r == CleanupResult(d, o)
                IN  /\ r.calls = <<"deactivate_ctf_event">>
                    /\ r.roles = roles /\ r.textChannels = textChannels
                    /\ r.voiceChannels = voiceChannels
                    /\ r.categories = categories /\ r.notices = notices
                    /\ get_ctf_event(r.store, d[2], d[3]) = None

\* a sweep has taken up an active expired event of a guild the bot has
\* left, while its role and channels still exist
C16_Witness ==
    \E d \in RowsOf(pending) :
        /\ d[3] \notin joined
        /\ get_ctf_event(store, d[2], d[3]) = d
        /\ d[4] \in roles /\ d[5] \in DOMAIN textChannels /\ d[6] \in voiceChannels

\* the place of a call in the order of the steps of a pass
StepRank(c) ==
    CASE c = "role.delete" -> 1
      [] c \in {"text.edit", "create_category", "text.move"} -> 2
      [] c = "voice.delete" -> 3
      [] c \in {"send_message_safely", "channel.send"} -> 4
      [] c = "deactivate_ctf_event" -> 5
      [] OTHER -> 0

\* C17: the steps a cleanup pass performs come in the order role delete,
\* text-channel edit and move, voice-channel delete, notice, deactivate;
\* deactivate comes after every gateway step of the pass and the notice
\* after the role and voice-channel deletions.
C17_CleanupStepOrder ==
    \A d \in RowsOf(pending) :
        \A o \in CleanupOutcomes(d) :
            LET calls == CleanupResult(d, o).calls
            IN  /\ \A i, j \in 1..Len(calls) :
                       i < j => (/\ StepRank(calls[i]) > 0
                                 /\ StepRank(calls[i]) <= StepRank(calls[j]))
                /\ \A i \in 1..Len(calls) :
                       calls[i] = "deactivate_ctf_event" => i = Len(calls)

\* a pass deletes role and voice channel of an event whose text channel is
\* gone and deactivates it last
C17_Witness ==
    \E d \in RowsOf(pending) :
        CleanupResult(d, AllOk).calls =
            <<"role.delete", "voice.delete", "deactivate_ctf_event">>

\* C18: a failure in the cleanup of one expired event does not stop the
\* sweep: whatever a pass does, the list of the sweep loses just the event
\* that pass was about, so every other expired event of the sweep is
\* processed in its turn; no exception of a pass reaches the loop.
C18_SweepGoesOn ==
    [][pending # <<>> =>
          \/ pending' = pending
          \/ /\ pending' = Tail(pending)
             /\ \A d \in RowsOf(Tail(pending)) : d \in RowsOf(pending')]_vars

\* the pass over one of two expired events of a sweep has failed (its text
\* channel is public, the event still active) and the other one is next
C18_Witness ==
    /\ Len(pending) = 1
    /\ \E a \in RowsOf(store) :
        /\ a[9] /\ a[1] # Head(pending)[1]
        /\ a[8] # NULL /\ InstantOf(a[8]) <= now
        /\ a[5] \in DOMAIN textChannels /\ textChannels[a[5]].public

\* the event of the tuple d is no longer active
Deactivated(d) == get_ctf_event(store, d[2], d[3]) = None

\* the passes that were told by the gateway that their delete of the
\* object went through
Winners(object) == {p \in Passes : object \in passes[p].won}

\* C19: when two cleanup passes over the same expired event, interleaved at
\* their awaited gateway calls, have both ended, the event is inactive
\* (the deactivate of the pass that comes second raising nothing), and the
\* role and the voice channel were each deleted by at most one of them
C19_RacingPassesDeactivateOnce ==
    (/\ \A p \in Passes : passes[p].pc \in {"done", "failed"}
     /\ passes[1].ctf_data = passes[2].ctf_data)
        => /\ Deactivated(passes[1].ctf_data)
           /\ \A p \in Passes : passes[p].pc = "done"
           /\ Cardinality(Winners("role")) <= 1
           /\ Cardinality(Winners("voice")) <= 1

\* what does hold of a race: no object is deleted twice, and a pass that
\* reaches deactivate after the other one ends without an error
RacingPassesDeleteOnce ==
    /\ Cardinality(Winners("role")) <= 1
    /\ Cardinality(Winners("voice")) <= 1
    /\ \A p \in Passes : passes[p].pc = "done" => Deactivated(passes[p].ctf_data)

\* a step that cancels pass p
Cancelled(p) == passes[p].pc \in Awaited /\ passes'[p].pc = "cancelled"

\* C20: a cancellation at any suspension point of a cleanup pass leaves the
\* table as it was, the event is selected again by the next sweep, and the
\* pass that sweep starts on it ends with the event deactivated
C20_CancelledCleanupIsRetried ==
    /\ [](\A p \in Passes :
            /\ passes[p].pc = "cancelled" /\ ~Deactivated(passes[p].ctf_data)
                => passes[p].ctf_data \in get_ctf_events_to_end(store, now)
            /\ passes[p].again /\ passes[p].pc \in {"done", "failed"}
                => Deactivated(passes[p].ctf_data) /\ passes[p].pc = "done")
    /\ [][\A p \in Passes : Cancelled(p) => store' = store]_vars

\* what does hold of a cancellation: the table is untouched and the
\* event is still selected
CancelKeepsRow ==
    /\ [](\A p \in Passes :
            passes[p].pc = "cancelled" /\ ~Deactivated(passes[p].ctf_data)
                => passes[p].ctf_data \in get_ctf_events_to_end(store, now))
    /\ [][\A p \in Passes : Cancelled(p) => store' = store]_vars

\* C21: for a chunk size of at least 1, the chunks chunk_message returns,
\* joined in order, are the message; no chunk is longer than the chunk
\* size and every chunk but the last has exactly that length; the empty
\* message gives no chunk
C21_ChunksMakeUpMessage ==
    \A k \in DOMAIN returned :
        chunk_size >= 1 =>
            LET chunks == returned[k]
            IN  /\ Concat(chunks) = content
                /\ \A i \in DOMAIN chunks : Len(chunks[i]) <= chunk_size
                /\ \A i \in 1..(Len(chunks) - 1) : Len(chunks[i]) = chunk_size
                /\ content = <<>> => chunks = <<>>

\* a message was cut into three chunks, the last one shorter than the rest
C21_Witness ==
    /\ returned # <<>>
    /\ chunk_size = 2
    /\ Len(content) = 5
    /\ Len(returned[1]) = 3
    /\ Len(returned[1][3]) = 1

\* C22: delete_alpacahack_user(name) answers "Deleted user: <name>" exactly
\* when the table holds a row of that name when it is called, and
\* "No user: <name>" otherwise
C22_DeleteReplyTellsPresence ==
    \A name \in AlpacaNames :
        LET reply == delete_alpacahack_user(alpacahack_user, name).reply
        IN  /\ reply = <<"Deleted user: ", name>> <=> name \in alpacahack_user
            /\ reply = <<"No user: ", name>> <=> name \notin alpacahack_user

\* the table holds alice and not bob: deleting the one is answered with
\* Deleted user, deleting the other with No user
C22_Witness ==
    /\ "alice" \in alpacahack_user
    /\ "bob" \notin alpacahack_user
    /\ delete_alpacahack_user(alpacahack_user, "alice").reply = <<"Deleted user: ", "alice">>
    /\ delete_alpacahack_user(alpacahack_user, "bob").reply = <<"No user: ", "bob">>

\* C30: when delete_alpacahack_user(name) has answered "Deleted user:
\* <name>", a get_all_alpacahack_users() that follows, on a connection of
\* its own, does not list the name
C30_DeleteIsDurable ==
    \A name \in AlpacaNames :
        LET r == delete_alpacahack_user(alpacahack_user, name)
        IN  r.reply = <<"Deleted user: ", name>>
                => name \notin get_all_alpacahack_users(r.table)

\* C23: no (name, guild) has two active rows, also when two announce_ctf
\* invocations for the same name and guild interleave at their gateway calls
C23_OneActiveRowPerName ==
    \A i, j \in DOMAIN store :
        (store[i][9] /\ store[j][9]
         /\ store[i][2] = store[j][2] /\ store[i][3] = store[j][3]) => i = j

\* two invocations for the same name and guild both got past the lookup
\* and made their objects; one has saved its row, the other was refused
C23_Witness ==
    /\ announces[1].name = announces[2].name
    /\ announces[1].guild = announces[2].guild
    /\ {announces[1].pc, announces[2].pc} = {"done", "refused"}
    /\ announces[1].role # announces[2].role
    /\ Cardinality(ActiveRows(store, announces[1].name, announces[1].guild)) = 1

\* C24: on_raw_reaction_add grants a role only to an actor that is no bot,
\* for the marker emoji, on the announcement of an active event of the
\* payload's guild; what it grants is the stored role of that event, to the
\* reacting user and to nobody else
C24_JoinGrantsOnlyToReactingUser ==
    \A user \in Actors, emoji \in Emojis, message \in MessageInputs,
       g \in Guilds \cup {NoGuild}, a \in ReactionAnswers :
        LET r == ReactionAddResult(user, emoji, message, g, a)
        IN  r.grants # grants =>
                /\ user \notin Bots
                /\ emoji = FLAG
                /\ IsActiveAnnouncement(message, g)
                /\ r.grants = grants \cup
                        {<<user, FetchByAnnouncement(store, message, g)[4]>>}

\* the same without the condition on the actor, which is what does hold:
\* every actor but the bot itself is served
JoinGrantsOnlyOnAnnouncement ==
    \A user \in Actors, emoji \in Emojis, message \in MessageInputs,
       g \in Guilds \cup {NoGuild}, a \in ReactionAnswers :
        LET r == ReactionAddResult(user, emoji, message, g, a)
        IN  r.grants # grants =>
                /\ user # BotUser
                /\ emoji = FLAG
                /\ IsActiveAnnouncement(message, g)
                /\ r.grants = grants \cup
                        {<<user, FetchByAnnouncement(store, message, g)[4]>>}

\* the active events whose role exists, in a guild the bot is in
Joinable == {row \in RowsOf(store) : row[9] /\ row[3] \in joined /\ row[4] \in roles}

\* C25: for an active event and a user, a marker reaction added to the
\* announcement and handled with its gateway call succeeding leaves the
\* user with the event's role, and one removed leaves the user without it,
\* whatever the user held before: after any sequence of the two the user
\* holds the role exactly when the last one was an add
C25_RoleFollowsLastReaction ==
    \A row \in Joinable, user \in Users \ {BotUser}, dm \in Outcomes :
        LET a == [member |-> TRUE, role |-> "ok", dm |-> dm]
            added == ReactionAddResult(user, FLAG, row[7], row[3], a).grants
            removed == ReactionRemoveResult(user, FLAG, row[7], row[3], a).grants
        IN  /\ <<user, row[4]>> \in added
            /\ <<user, row[4]>> \notin removed
            /\ added \ {<<user, row[4]>>} = grants \ {<<user, row[4]>>}
            /\ removed = grants \ {<<user, row[4]>>}

\* a user holds the role of an active event after an add; a remove would
\* take it and a further add would leave it
C25_Witness ==
    \E row \in Joinable :
        /\ <<51, row[4]>> \in grants
        /\ ReactionRemoveResult(51, FLAG, row[7], row[3], SmoothAnswer).grants = {}
        /\ ReactionAddResult(51, FLAG, row[7], row[3], SmoothAnswer).grants = grants

\* C26: when a join grants the role and the direct message to the actor
\* fails, the actor has the role, no message reaches any user, no exception
\* leaves the listener and the table is as it was
C26_FailedNoticeKeepsRole ==
    \A row \in Joinable, user \in Users \ {BotUser}, dm \in Outcomes \ {"ok"} :
        LET r == ReactionAddResult(user, FLAG, row[7], row[3],
                                   [member |-> TRUE, role |-> "ok", dm |-> dm])
        IN  /\ <<user, row[4]>> \in r.grants
            /\ r.dms = <<>>
            /\ ~r.raised
            /\ r.store = store

\* an active event whose role a user does not hold yet: the join grants it
\* though the direct message is refused
C26_Witness ==
    \E row \in Joinable :
        /\ <<51, row[4]>> \notin grants
        /\ ReactionAddResult(51, FLAG, row[7], row[3],
                             [member |-> TRUE, role |-> "ok", dm |-> "Forbidden"]).grants
                = {<<51, row[4]>>}

\* C27: the cleanup of an expired event whose text channel exists posts a
\* closing notice to that channel when the gateway takes it, and no text
\* channel is ever posted two closing notices
C27_ClosingNoticePostedOnce ==
    /\ \A d \in RowsOf(pending) :
        (GuildFound(d[3]) /\ d[5] \in DOMAIN textChannels)
            => CleanupResult(d, AllOk).notices = Append(notices, d[5])
    /\ \A i, j \in DOMAIN notices : notices[i] = notices[j] => i = j

\* the archive categories made in this run (the ids before FirstId were
\* there when it began)
CreatedArchives(g) == {c \in categories : c.guild = g /\ c.id >= FirstId}

\* C28: a cleanup calls create_category only when the guild has no category
\* whose lower-cased name is archive, archived or its katakana spelling; no
\* guild is ever made a second archive category, and a cleanup that finds
\* one moves its text channel into it
C28_OneArchiveCategory ==
    /\ \A g \in Guilds : Cardinality(CreatedArchives(g)) <= 1
    /\ \A d \in RowsOf(pending) : \A o \in CleanupOutcomes(d) :
        LET r == CleanupResult(d, o)
            found == ArchiveCategories(categories, d[3])
        IN  /\ Has(r.calls, "create_category") => found = {}
            /\ found # {} =>
                /\ r.categories = categories
                /\ (Has(r.calls, "text.move") /\ o.move = "ok")
                    => r.textChannels[d[5]].category \in {c.id : c \in found}

\* the cleanups of two events of guild 1 have moved both text channels into
\* the one archive category the first of them made
C28_Witness ==
    \E c \in CreatedArchives(1) :
        Cardinality({t \in DOMAIN textChannels : textChannels[t].category = c.id}) = 2

\* the rows of (name, g) that are no longer active
InactiveRows(tbl, name, g) ==
    {r \in RowsOf(tbl) : r[2] = name /\ r[3] = g /\ ~r[9]}

\* C29: announce_ctf with the name of a deactivated event, in its guild,
\* with every gateway call succeeding, posts the announcement and adds one
\* row: active, with a NULL end time and with the ids of the role, channels
\* and message it has just made, none of them an id of an earlier row; the
\* rows that were there, the deactivated one among them, are as they were
C29_NameUsedAgainGetsNewRow ==
    \A g \in joined, name \in NameInputs :
        (/\ IsValidName(name)
         /\ ActiveRows(store, name, g) = {}
         /\ InactiveRows(store, name, g) # {})
        => LET r == AnnounceResult(g, name, NoFailure)
               new == r.store[Len(r.store)]
           IN  /\ r.replies = <<"Announcement">>
               /\ ~r.raised
               /\ Len(r.store) = Len(store) + 1
               /\ SubSeq(r.store, 1, Len(store)) = store
               /\ InactiveRows(r.store, name, g) = InactiveRows(store, name, g)
               /\ new[2] = name /\ new[3] = g /\ new[9] /\ new[8] = NULL
               /\ <<new[4], new[5], new[6], new[7]>> = r.made
               /\ NoId \notin {new[4], new[5], new[6], new[7]}
               /\ Cardinality({new[4], new[5], new[6], new[7]}) = 4
               /\ \A old \in RowsOf(store) :
                    {new[4], new[5], new[6], new[7]}
                        \cap {old[4], old[5], old[6], old[7]} = {}

\* the name of the deactivated event has been announced again: the table
\* holds the old row, inactive, and a new active row with ids of its own
C29_Witness ==
    /\ Len(store) = 2
    /\ store[1] = EndedEvent
    /\ store[2][2] = NameDEF /\ store[2][3] = 1 /\ store[2][9]
    /\ store[2][8] = NULL
    /\ store[2][4] \in roles /\ store[2][4] # store[1][4]

====
